---- MODULE Spec2Model ----
(***************************************************************************)
(* Model of the images-to-archive conversion pipeline: the format          *)
(* dispatch (CreateArchive), the native zip packager (CreateZipArchive and *)
(* its silent and progress-reporting copies), and the external repack      *)
(* (CreateRarArchive, Create7zArchive).                                    *)
(*                                                                         *)
(* Strings of the program (paths, format names) are sequences of           *)
(* one-character strings, so that ToLower, Ext and TrimSuffix are computed *)
(* as the Go library computes them.                                        *)
(***************************************************************************)
EXTENDS Integers, Sequences, FiniteSets, TLC

VARIABLES
    pc,          \* position of the one conversion call in flight
    entry,       \* entry point called: CreateArchive, CreateArchiveWithProgress, CreateSilentZipArchive
    format,      \* the archiveType / format argument as given by the caller
    tree,        \* what filepath.Walk(sourceDir) yields, in walk order
    strategy,    \* which Create*Archive the switch selected: zip, rar, 7z
    target,      \* archivePath argument of the running CreateZipArchive
    disk,        \* state of the files at ArchivePath and its temp sibling
    entries,     \* entry headers created on the zip writer, in order
    idx,         \* index in tree of the entry the walk is at
    walkErr,     \* the walk callback returned an error
    failKind,    \* which step of the callback failed
    closeLog,    \* deferred closes executed, in order, with their outcome
    zipRes,      \* return value of the zip packager
    lookups,     \* exec.LookPath calls made, with their outcome
    cmds,        \* subprocesses run, with their outcome
    removeDeferred, \* defer os.Remove(tempZipPath) is registered
    events,      \* progress and file callbacks invoked, in order
    processedFiles, \* the progress packager's counter of entries written
    totalFiles,  \* the progress packager's count of files to write
    result,      \* return value of the entry point
    decodeLog,   \* DecodeImage calls made: source file, attempts, result
    callbacks,   \* whether progressCallback and fileCallback are functions (not nil)
    driver,      \* caller driving several conversions: cli (processDirectoryRecursively) or tui
    directories, \* the items to convert, in order
    deleteOriginal, \* the delete-originals option
    loopAt,      \* CLI: 0-based index of the loop over directories
    dpc,         \* CLI: position of processDirectoryRecursively
    parentOf,    \* CLI: place in directories of the directory each one lies in, 0 for the root
    msgs,        \* TUI: messages of commands on their way to Update
    inUpdate,    \* TUI: the ProcessDirectoryMsg whose handler is running, if any
    active,      \* conversions called and not yet returned
    started,     \* 0-based indices of the items whose conversion was called, in order
    finished,    \* conversions returned, in order, with their outcome
    removed,     \* items removed with os.RemoveAll
    state,       \* TUI: m.state
    operationMode, \* TUI: m.operationMode
    currentDir,  \* TUI: m.currentDir
    totalDirs,   \* TUI: m.totalDirs
    completedDirs, \* TUI: m.completedDirs
    directoryPath, \* TUI: m.directoryPath
    availableItems, \* TUI: m.availableItems
    selectedItems, \* TUI: keys of m.selectedItems
    cursor,      \* TUI: m.cursor
    itemStartIndex, \* TUI: m.itemStartIndex
    itemsPerPage, \* TUI: m.itemsPerPage
    selectedFormat, \* TUI: m.selectedFormat
    quit,        \* TUI: "quitting" once a handler returned tea.Quit, "quit"
                 \* once the program has ended by it, "panic" after a panic
    archive,     \* TUI file mode: entries of the archive at <directory>/<name>.<format>
    conversionLog, \* TUI: m.conversionLog
    restarted    \* TUI: 'r' has replaced the model by InitialModel()

conversionVars ==
    <<pc, entry, format, tree, strategy, target, disk, entries, idx,
      walkErr, failKind, closeLog, zipRes, lookups, cmds, removeDeferred,
      events, processedFiles, totalFiles, result, decodeLog, callbacks>>

driverVars ==
    <<driver, directories, deleteOriginal, loopAt, dpc, parentOf, msgs, inUpdate,
      active, started, finished, removed, state, operationMode, currentDir,
      totalDirs, completedDirs, conversionLog, restarted>>

screenVars ==
    <<directoryPath, availableItems, selectedItems, cursor, itemStartIndex,
      itemsPerPage, selectedFormat, quit, archive>>

vars == <<conversionVars, driverVars, screenVars>>

-----------------------------------------------------------------------------
(* Bounds *)

\* Largest number of entries below the source directory in a modelled tree.
MaxFiles == 3

\* Largest number of items (directories or files) one run converts.
MaxItems == 2

\* Largest number of entries of a directory on the item-selection screen.
MaxAvail == 6

\* Largest number of FileProcessedMsg delivered to one model.
MaxLogged == 1

\* Largest length of the directory path typed on the first screen.
MaxPathLen == 1

-----------------------------------------------------------------------------
(* Strings *)

Upper == <<"A","B","C","D","E","F","G","H","I","J","K","L","M",
           "N","O","P","Q","R","S","T","U","V","W","X","Y","Z">>
Lower == <<"a","b","c","d","e","f","g","h","i","j","k","l","m",
           "n","o","p","q","r","s","t","u","v","w","x","y","z">>

ToLowerChar(c) ==
    IF \E i \in DOMAIN Upper : Upper[i] = c
    THEN Lower[CHOOSE i \in DOMAIN Upper : Upper[i] = c]
    ELSE c

ToUpperChar(c) ==
    IF \E i \in DOMAIN Lower : Lower[i] = c
    THEN Upper[CHOOSE i \in DOMAIN Lower : Lower[i] = c]
    ELSE c

\* strings.ToLower with every letter's case dropped (a plausible slip: the
\* switch applied to the raw argument).
ToLowerIdentity(s) == s

\* strings.ToLower
ToLower(s) == [i \in DOMAIN s |-> ToLowerChar(s[i])]

\* strings.HasSuffix
HasSuffix(s, suffix) ==
    /\ Len(suffix) <= Len(s)
    /\ SubSeq(s, Len(s) - Len(suffix) + 1, Len(s)) = suffix

\* strings.TrimSuffix
TrimSuffix(s, suffix) ==
    IF HasSuffix(s, suffix) THEN SubSeq(s, 1, Len(s) - Len(suffix)) ELSE s

RECURSIVE ExtFrom(_, _)
ExtFrom(path, i) ==
    IF i < 1 \/ path[i] = "/" THEN <<>>
    ELSE IF path[i] = "." THEN SubSeq(path, i, Len(path))
    ELSE ExtFrom(path, i - 1)

\* filepath.Ext: the suffix beginning at the final dot of the final element.
Ext(path) == ExtFrom(path, Len(path))

RECURSIVE BaseFrom(_, _)
BaseFrom(path, i) ==
    IF i < 1 \/ path[i] = "/" THEN SubSeq(path, i + 1, Len(path))
    ELSE BaseFrom(path, i - 1)

\* filepath.Base of a path that does not end in a separator: its final element.
Base(path) == BaseFrom(path, Len(path))

\* filepath.Rel(base, path) for a path the walk of base yields.
Rel(base, path) ==
    IF path = base THEN <<".">> ELSE SubSeq(path, Len(base) + 2, Len(path))

-----------------------------------------------------------------------------
(* File classifier and image decoder *)

ImageExts == { <<".","j","p","g">>, <<".","j","p","e","g">>,
               <<".","p","n","g">>, <<".","g","i","f">> }

\* The classifier comparing the extension as written.
IsImageFileCaseSensitive(filename) == Ext(filename) \in ImageExts

\* fileops.IsImageFile
IsImageFile(filename) == ToLower(Ext(filename)) \in ImageExts

\* What the bytes of a file are: the three formats with a dedicated decoder,
\* webp (known to image.Decode only, registered by the webp package),
\* bytes no decoder parses, and plain text.
Contents == {"jpeg", "png", "gif", "webp", "corrupt", "text"}

\* jpeg.Decode, png.Decode, gif.Decode: each parses its own format only.
JpegDecodes(content) == content = "jpeg"
PngDecodes(content)  == content = "png"
GifDecodes(content)  == content = "gif"
\* image.Decode: any registered format.
GenericDecodes(content) == content \in {"jpeg", "png", "gif", "webp"}

\* fileops.DecodeImage with the generic fallback left out.
DecodeImageNoFallback(content) ==
    IF JpegDecodes(content) THEN [ok |-> TRUE, format |-> "JPEG"]
    ELSE IF PngDecodes(content) THEN [ok |-> TRUE, format |-> "PNG"]
    ELSE IF GifDecodes(content) THEN [ok |-> TRUE, format |-> "GIF"]
    ELSE [ok |-> FALSE, format |-> ""]

\* The decoders in the order DecodeImage calls them.
Decoders == <<"jpeg", "png", "gif", "generic">>

\* Whether a decoder reading the file from its first byte accepts it.
Parses(decoder, content) ==
    IF decoder = "jpeg" THEN JpegDecodes(content)
    ELSE IF decoder = "png" THEN PngDecodes(content)
    ELSE IF decoder = "gif" THEN GifDecodes(content)
    ELSE GenericDecodes(content)

\* The format string returned with the image: a literal after a dedicated
\* decoder, the registered format name after image.Decode.
Tag(decoder, content) ==
    IF decoder = "jpeg" THEN "JPEG"
    ELSE IF decoder = "png" THEN "PNG"
    ELSE IF decoder = "gif" THEN "GIF"
    ELSE content

\* The file left where the previous decoder stopped reading.
SeekNowhere(pos) == pos

\* file.Seek(0, 0): the position of the file afterwards.
Seek(pos) == 0

\* The position after a decoder has read from pos: past the bytes it looked at.
AfterRead(pos) == pos + 1

RECURSIVE DecodeFrom(_, _, _, _)
\* The attempts from the i-th decoder on, the file being at pos. A decoder
\* accepts the file only when it reads it from the first byte. The result
\* lists the attempts made and names the attempt whose error is returned.
DecodeFrom(content, i, pos, tried) ==
    LET at   == Seek(pos)
        now  == Append(tried, [decoder |-> Decoders[i], at |-> at])
    IN IF at = 0 /\ Parses(Decoders[i], content)
       THEN [ok |-> TRUE, format |-> Tag(Decoders[i], content),
             tried |-> now, err |-> "none"]
       ELSE IF i = Len(Decoders)
            THEN [ok |-> FALSE, format |-> "", tried |-> now, err |-> Decoders[i]]
            ELSE DecodeFrom(content, i + 1, AfterRead(at), now)

\* fileops.DecodeImage: JPEG, PNG, GIF, then the generic decoder, on the
\* file as os.Open returns it (position 0).
DecodeImage(content) == DecodeFrom(content, 1, 0, <<>>)

-----------------------------------------------------------------------------
(* Source trees *)

SourceDir == <<"s">>

InDir(rel) == SourceDir \o <<"/">> \o rel

Dir(path)           == [path |-> path, isDir |-> TRUE,  content |-> "dir"]
File(path, content) == [path |-> path, isDir |-> FALSE, content |-> content]

\* Candidate entries below SourceDir, in the order filepath.Walk visits
\* them (names sorted byte-wise, a directory's entries right after it): a
\* PNG named .JPG, a PNG, a corrupt .png, a subdirectory, a GIF inside it
\* and a text file.
Universe ==
    << File(InDir(<<"a",".","J","P","G">>), "png"),
       File(InDir(<<"a",".","p","n","g">>), "png"),
       File(InDir(<<"b",".","p","n","g">>), "corrupt"),
       Dir(InDir(<<"d">>)),
       File(InDir(<<"d","/","c",".","g","i","f">>), "gif"),
       File(InDir(<<"n",".","t","x","t">>), "text") >>

RECURSIVE Pick(_, _)
\* The entries of Universe whose index is in S, from index i on, in order.
Pick(S, i) ==
    IF i > Len(Universe) THEN <<>>
    ELSE (IF i \in S THEN <<Universe[i]>> ELSE <<>>) \o Pick(S, i + 1)

\* A file inside the subdirectory exists only if the subdirectory does.
Closed(S) == (5 \in S) => (4 \in S)

\* The walks of SourceDir: the root first, then at most MaxFiles entries.
Trees ==
    { <<Dir(SourceDir)>> \o Pick(S, 1) :
        S \in { T \in SUBSET (DOMAIN Universe) :
                    Cardinality(T) <= MaxFiles /\ Closed(T) } }

\* Relative paths of single files: letter cases of the extension, two dots,
\* a name that is only an extension, no dot, a longer and a shorter
\* extension, a trailing dot, a dot in the directory only, a subdirectory.
NamePaths ==
    { <<"a",".","p","n","g">>, <<"a",".","P","n","G">>,
      <<"a",".","j","p","e","g">>, <<"a",".","J","P","G">>,
      <<"a",".","g","i","f">>, <<"a",".","w","e","b","p">>,
      <<"a",".","b",".","p","n","g">>, <<".","p","n","g">>,
      <<"p","n","g">>, <<"a",".","p","n","g",".","t","x","t">>,
      <<"a",".","p","n","g","x">>, <<"a",".","j","p">>, <<"a",".">>,
      <<"d",".","p","n","g","/","e">>, <<"d","/","e",".","x",".","g","i","f">> }

RECURSIVE FirstSlash(_, _)
\* Index of the first separator of s from index i on, 0 if there is none.
FirstSlash(s, i) ==
    IF i > Len(s) THEN 0 ELSE IF s[i] = "/" THEN i ELSE FirstSlash(s, i + 1)

\* The walk of a source directory holding the one file rel (and the
\* directory it is in).
FileTree(rel, content) ==
    LET n == FirstSlash(rel, 1) IN
    <<Dir(SourceDir)>>
        \o (IF n = 0 THEN <<>> ELSE <<Dir(InDir(SubSeq(rel, 1, n - 1)))>>)
        \o <<File(InDir(rel), content)>>

NameTrees == { FileTree(rel, content) : rel \in NamePaths, content \in Contents }

\* Number of non-directory entries of a tree.
NumFiles(t) == Cardinality({ i \in DOMAIN t : ~t[i].isDir })

-----------------------------------------------------------------------------
(* Format names *)

zip  == <<"z","i","p">>
cbz  == <<"c","b","z">>
rar  == <<"r","a","r">>
cbr  == <<"c","b","r">>
z7   == <<"7","z">>
cb7z == <<"c","b","7","z">>

RECURSIVE CaseVariants(_)
\* Every spelling of s in upper and lower case letters.
CaseVariants(s) ==
    IF s = <<>> THEN { <<>> }
    ELSE { <<c>> \o r : c \in { Head(s), ToUpperChar(Head(s)) },
                        r \in CaseVariants(Tail(s)) }

\* Strings that are none of the six names in any letter case.
UnknownFormats == { <<>>, <<"t","a","r">>, <<"z","i","p","x">>, <<"R","A","R","5">> }

Formats ==
    CaseVariants(zip) \cup CaseVariants(cbz) \cup CaseVariants(rar) \cup
    CaseVariants(cbr) \cup CaseVariants(z7) \cup CaseVariants(cb7z) \cup
    UnknownFormats

\* The format strings the progress packager is called with.
ProgressFormats == { zip, cbz, rar, cbr, z7, cb7z, <<"R","a","R">>, <<"t","a","r">> }

-----------------------------------------------------------------------------
(* Paths and files of the output side *)

ArchivePath == <<"o">>

\* tempZipPath := archivePath + ".temp.zip"
TempZipPath(archivePath) ==
    archivePath \o <<".","t","e","m","p",".","z","i","p">>

OutPaths == { ArchivePath, TempZipPath(ArchivePath) }

Absent == [exists |-> FALSE, kind |-> "none", finalized |-> FALSE]

\* os.Create: the file exists, empty, nothing of a container in it yet.
Created == [exists |-> TRUE, kind |-> "zip", finalized |-> FALSE]

\* What the external tool leaves at its output path when it exits with 0.
Repacked(tool) == [exists |-> TRUE, kind |-> tool, finalized |-> TRUE]

-----------------------------------------------------------------------------
(* Format dispatch *)

\* The switch of CreateArchive with the default branch falling into the
\* branch above it.
DispatchDefaultRar(archiveType) ==
    LET f == ToLower(archiveType) IN
    IF f \in {cbz, zip} THEN "zip"
    ELSE IF f \in {cbr, rar} THEN "rar"
    ELSE IF f \in {cb7z, z7} THEN "7z"
    ELSE "rar"

\* The switch of CreateArchive: which Create*Archive is called.
Dispatch(archiveType) ==
    LET f == ToLower(archiveType) IN
    IF f \in {cbz, zip} THEN "zip"
    ELSE IF f \in {cbr, rar} THEN "rar"
    ELSE IF f \in {cb7z, z7} THEN "7z"
    ELSE "zip"

\* exec.Command(...) of CreateRarArchive and Create7zArchive.
Command(tool, archivePath, tempZipPath) ==
    IF tool = "rar"
    THEN [name |-> "rar", args |-> <<"a", "-ep1", archivePath, tempZipPath>>]
    ELSE [name |-> "7z",  args |-> <<"a", "-t7z", archivePath, tempZipPath>>]

\* The tool check that goes on although the tool is missing.
AfterLookPathIgnored(found) == "create"

\* CreateRarArchive, Create7zArchive: return at once when LookPath fails.
AfterLookPath(found) == IF found THEN "create" ELSE "done"

\* defer os.Remove(tempZipPath) is registered before cmd.Run: the temp file
\* is removed whatever the subprocess returns.
RemoveAfterRun(exitOK) == TRUE

-----------------------------------------------------------------------------
(* The walk callback *)

\* What can go wrong with one entry besides its bytes: nothing, an error
\* filepath.Walk hands to the callback (the entry cannot be examined or its
\* directory read), a failure of the add function before it reaches the
\* archive (open, stat), a failing zipWriter.CreateHeader (it closes the entry
\* before and returns that error, no header added), a failure once the
\* header is created (encode, copy).
Faults == {"none", "walk", "open", "header", "write"}

NoEntry == [err |-> FALSE, kind |-> "none", header |-> FALSE,
            name |-> <<>>, format |-> "", image |-> FALSE, decode |-> <<>>]

RECURSIVE FirstDot(_, _)
\* Index of the first dot of s from index i on, Len(s) + 1 if there is none.
FirstDot(s, i) ==
    IF i > Len(s) THEN i ELSE IF s[i] = "." THEN i ELSE FirstDot(s, i + 1)

\* The WebP name cut at the first dot of the path instead of the last.
WebPNameFirstDot(zipPath) ==
    SubSeq(zipPath, 1, FirstDot(zipPath, 1) - 1) \o <<".","w","e","b","p">>

\* webpPath := strings.TrimSuffix(zipPath, filepath.Ext(zipPath)) + ".webp"
WebPName(zipPath) ==
    TrimSuffix(zipPath, Ext(zipPath)) \o <<".","w","e","b","p">>

\* addImageAsWebPToZip creating the header before it decodes.
AddImageHeaderFirst(content, zipPath, fault) ==
    IF fault \in {"open", "header"}
    THEN [NoEntry EXCEPT !.err = TRUE, !.kind = fault]
    ELSE IF ~DecodeImage(content).ok
         THEN [err |-> TRUE, kind |-> "decode", header |-> TRUE,
               name |-> WebPName(zipPath), format |-> "", image |-> TRUE,
               decode |-> <<DecodeImage(content)>>]
    ELSE [err |-> fault = "write",
          kind |-> IF fault = "write" THEN "encode" ELSE "none",
          header |-> TRUE, name |-> WebPName(zipPath),
          format |-> DecodeImage(content).format, image |-> TRUE,
          decode |-> <<DecodeImage(content)>>]

\* addImageAsWebPToZip: open, decode, create the header, encode.
AddImageAsWebPToZip(content, zipPath, fault) ==
    IF fault = "open" THEN [NoEntry EXCEPT !.err = TRUE, !.kind = "open"]
    ELSE IF ~DecodeImage(content).ok
         THEN [NoEntry EXCEPT !.err = TRUE, !.kind = "decode",
                              !.decode = <<DecodeImage(content)>>]
    ELSE IF fault = "header"
         THEN [NoEntry EXCEPT !.err = TRUE, !.kind = "header",
                              !.decode = <<DecodeImage(content)>>]
    ELSE [err |-> fault = "write",
          kind |-> IF fault = "write" THEN "encode" ELSE "none",
          header |-> TRUE, name |-> WebPName(zipPath),
          format |-> DecodeImage(content).format, image |-> TRUE,
          decode |-> <<DecodeImage(content)>>]

\* addFileToZip: open, stat, create the header, copy.
AddFileToZip(content, zipPath, fault) ==
    IF fault \in {"open", "header"}
    THEN [NoEntry EXCEPT !.err = TRUE, !.kind = fault]
    ELSE [err |-> fault = "write",
          kind |-> IF fault = "write" THEN "copy" ELSE "none",
          header |-> TRUE, name |-> zipPath, format |-> "", image |-> FALSE,
          decode |-> <<>>]

\* The callback adding directories like files.
SkipNothing(e) == FALSE

\* The callback skipping the source directory itself but no subdirectory.
SkipRootOnly(e) == e.path = SourceDir

\* if info.IsDir() { return nil }
SkipEntry(e) == e.isDir

\* The callback given to filepath.Walk, on entry e.
WalkFn(e, fault) ==
    IF fault = "walk"
    THEN [NoEntry EXCEPT !.err = TRUE, !.kind = "walk"]
    ELSE IF SkipEntry(e) THEN NoEntry
    ELSE IF IsImageFile(e.path)
         THEN AddImageAsWebPToZip(e.content, Rel(SourceDir, e.path), fault)
         ELSE AddFileToZip(e.content, Rel(SourceDir, e.path), fault)

\* The packager with the writer's Close deferred a second time.
DefersTwice == <<"file", "writer", "writer">>

\* The deferred calls of the zip packager in the order it registers them:
\* defer archiveFile.Close(), then defer zipWriter.Close().
Defers == <<"file", "writer">>

RECURSIVE Lifo(_)
\* A sequence in reverse order.
Lifo(s) == IF s = <<>> THEN <<>> ELSE Append(Lifo(Tail(s)), Head(s))

\* Deferred calls run in the order of their registration.
RunOrderFifo(defers) == defers

\* Deferred calls run when the function returns, last registered first.
RunOrder(defers) == Lifo(defers)

\* Position of the packager when n of its deferred calls have run.
NextDeferred(n) ==
    IF n >= Len(RunOrder(Defers)) THEN "zipret"
    ELSE IF RunOrder(Defers)[n + 1] = "writer" THEN "wclose" ELSE "fclose"

\* Whether a Close that meets no I/O failure succeeds: the writer's unless the
\* file is closed already or the writer was closed before, the file's unless
\* it was closed before.
CanClose(what, log) ==
    IF what = "writer"
    THEN \A j \in DOMAIN log : ~(log[j].what = "file" /\ log[j].ok)
                               /\ log[j].what # "writer"
    ELSE \A j \in DOMAIN log : log[j].what # "file"

\* A walk that goes on to the next entry after the callback failed.
AfterCallbackGoOn(err) == "walk"

\* filepath.Walk stops at the first error its callback returns; the packager
\* then returns, which runs its deferred calls.
AfterCallback(err) == IF err THEN NextDeferred(0) ELSE "walk"

-----------------------------------------------------------------------------
(* Initial state: no call made, nothing at the output paths *)

Init ==
    /\ pc = "idle"
    /\ entry = "none"
    /\ format = <<>>
    /\ tree = <<>>
    /\ strategy = "none"
    /\ target = <<>>
    /\ disk = [p \in OutPaths |-> Absent]
    /\ entries = <<>>
    /\ idx = 0
    /\ walkErr = FALSE
    /\ failKind = "none"
    /\ closeLog = <<>>
    /\ zipRes = "none"
    /\ lookups = <<>>
    /\ cmds = <<>>
    /\ removeDeferred = FALSE
    /\ events = <<>>
    /\ processedFiles = 0
    /\ totalFiles = 0
    /\ result = "none"
    /\ decodeLog = <<>>
    /\ callbacks = [progress |-> TRUE, file |-> TRUE]
    /\ driver = "none"
    /\ directories = <<>>
    /\ deleteOriginal = FALSE
    /\ loopAt = 0
    /\ dpc = "none"
    /\ parentOf = <<>>
    /\ msgs = {}
    /\ inUpdate = <<>>
    /\ active = 0
    /\ started = <<>>
    /\ finished = <<>>
    /\ removed = {}
    /\ state = "StateSelectDirectory"
    /\ operationMode = "ModeUnknown"
    /\ currentDir = 0
    /\ totalDirs = 0
    /\ completedDirs = <<>>
    /\ directoryPath = <<>>
    /\ availableItems = <<>>
    /\ selectedItems = {}
    /\ cursor = 0
    /\ itemStartIndex = 0
    /\ itemsPerPage = 10
    /\ selectedFormat = "CBZ (ZIP)"
    /\ quit = "no"
    /\ archive = <<>>
    /\ restarted = FALSE
    /\ conversionLog = <<>>

-----
(* Callbacks of the progress packager *)

\* The callback a message goes to is nil.
IsNil(ev, cbs) == IF ev.type = "file" THEN ~cbs.file ELSE ~cbs.progress

RECURSIVE Delivered(_, _)
\* The messages of evs that reach their callback: those before the first
\* call of a nil function, which panics.
Delivered(evs, cbs) ==
    IF evs = <<>> \/ IsNil(Head(evs), cbs) THEN <<>>
    ELSE <<Head(evs)>> \o Delivered(Tail(evs), cbs)

\* Sending evs calls a nil function.
Panics(evs, cbs) == \E j \in DOMAIN evs : IsNil(evs[j], cbs)

\* NewProgressArchive(progressCallback, fileCallback): the fields are set to
\* the arguments as given, nil or not.
NewProgressArchive(progress, file) ==
    /\ pc = "idle"
    /\ callbacks' = [progress |-> progress, file |-> file]
    /\ UNCHANGED <<pc, entry, format, tree, strategy, target, disk, entries,
                   idx, walkErr, failKind, closeLog, zipRes, lookups, cmds,
                   removeDeferred, events, processedFiles, totalFiles, result,
                   decodeLog,
                   driverVars, screenVars>>

-----------------------------------------------------------------------------
(* Entry points *)

\* archive.CreateArchive(sourceDir, archivePath, archiveType)
CreateArchive(archiveType, t) ==
    /\ pc = "idle"
    /\ entry' = "CreateArchive"
    /\ format' = archiveType
    /\ tree' = t
    /\ strategy' = Dispatch(archiveType)
    /\ IF strategy' = "zip"
       THEN pc' = "create" /\ target' = ArchivePath
       ELSE pc' = "lookpath" /\ target' = target
    /\ UNCHANGED <<disk, entries, idx, walkErr, failKind, closeLog, zipRes,
                   lookups, cmds, removeDeferred, events, processedFiles,
                   totalFiles, result,
                   decodeLog, callbacks,
                   driverVars, screenVars>>

\* tui.CreateSilentZipArchive(sourceDir, archivePath)
CreateSilentZipArchive(t) ==
    /\ pc = "idle"
    /\ entry' = "CreateSilentZipArchive"
    /\ tree' = t
    /\ strategy' = "zip"
    /\ target' = ArchivePath
    /\ pc' = "create"
    /\ UNCHANGED <<format, disk, entries, idx, walkErr, failKind, closeLog,
                   zipRes, lookups, cmds, removeDeferred, events,
                   processedFiles, totalFiles, result,
                   decodeLog, callbacks,
                   driverVars, screenVars>>

\* The first walk of CreateArchiveWithProgress, which counts the files. Its
\* callback returns the error Walk hands it, which ends the walk, and the
\* result of the walk is discarded: the count is that of the files visited
\* before the entry at index stop, of all files when stop is 0.
CountingWalk(t, stop) ==
    Cardinality({ i \in DOMAIN t : ~t[i].isDir /\ (stop = 0 \/ i < stop) })

\* ProgressArchive.CreateArchiveWithProgress(sourceDir, archivePath, format):
\* the count of the files, the first progress message; format is not read.
CreateArchiveWithProgress(fmt, t, stop) ==
    /\ pc = "idle"
    /\ stop <= Len(t)
    /\ entry' = "CreateArchiveWithProgress"
    /\ format' = fmt
    /\ tree' = t
    /\ strategy' = "zip"
    /\ target' = ArchivePath
    /\ totalFiles' = CountingWalk(t, stop)
    /\ LET start == <<[type |-> "progress", processed |-> 0,
                        total |-> CountingWalk(t, stop), msg |-> "start",
                        file |-> Base(SourceDir)]>>
       IN /\ events' = events \o Delivered(start, callbacks)
          /\ IF Panics(start, callbacks)
             THEN pc' = "done" /\ result' = "panic" /\ failKind' = "panic"
             ELSE pc' = "create" /\ result' = result /\ failKind' = failKind
    /\ UNCHANGED <<disk, entries, idx, walkErr, closeLog, zipRes,
                   lookups, cmds, removeDeferred, processedFiles,
                   decodeLog, callbacks,
                   driverVars, screenVars>>

-----------------------------------------------------------------------------
(* External repack: the tool check *)

\* exec.LookPath(tool) of CreateRarArchive / Create7zArchive
LookPath(found) ==
    /\ pc = "lookpath"
    /\ lookups' = Append(lookups, [tool |-> strategy, found |-> found])
    /\ pc' = AfterLookPath(found)
    /\ IF pc' = "done"
       THEN result' = "err" /\ target' = target
       ELSE result' = result /\ target' = TempZipPath(ArchivePath)
    /\ UNCHANGED <<entry, format, tree, strategy, disk, entries, idx, walkErr,
                   failKind, closeLog, zipRes, cmds, removeDeferred, events,
                   processedFiles, totalFiles,
                   decodeLog, callbacks,
                   driverVars, screenVars>>

-----------------------------------------------------------------------------
(* The zip packager: CreateZipArchive, CreateSilentZipArchive and the body *)
(* of CreateArchiveWithProgress                                            *)

\* os.Create(archivePath); zip.NewWriter(archiveFile)
OsCreate(ok) ==
    /\ pc = "create"
    /\ IF ok
       THEN /\ disk' = [disk EXCEPT ![target] = Created]
            /\ idx' = 1
            /\ pc' = "walk"
            /\ zipRes' = zipRes
       ELSE /\ zipRes' = "err"
            /\ pc' = "zipret"
            /\ UNCHANGED <<disk, idx>>
    /\ UNCHANGED <<entry, format, tree, strategy, target, entries, walkErr,
                   failKind, closeLog, lookups, cmds, removeDeferred, events,
                   processedFiles, totalFiles, result,
                   decodeLog, callbacks,
                   driverVars, screenVars>>

\* The messages one callback run sends in the progress packager: the file
\* message of addImageAsWebPToZip, then "Processing <name>..." with the
\* counter just incremented; "Error converting <name>" when an image failed.
CallbackEvents(e, out) ==
    IF entry # "CreateArchiveWithProgress" THEN <<>>
    ELSE IF out.err
         THEN IF out.kind \in {"decode", "encode"} \/
                 (out.kind \in {"open", "header"} /\ IsImageFile(e.path))
              THEN <<[type |-> "progress", processed |-> processedFiles,
                      total |-> totalFiles, msg |-> "error",
                      file |-> Base(e.path)]>>
              ELSE <<>>
    ELSE IF ~out.header THEN <<>>
    ELSE (IF IsImageFile(e.path)
          THEN <<[type |-> "file", name |-> Base(e.path), format |-> out.format]>>
          ELSE <<>>)
         \o <<[type |-> "progress", processed |-> processedFiles + 1,
               total |-> totalFiles, msg |-> "processing",
               file |-> Base(e.path)]>>

\* One call of the walk callback, on tree[idx].
WalkStep(fault) ==
    /\ pc = "walk"
    /\ idx <= Len(tree)
    /\ LET e   == tree[idx]
           out == WalkFn(e, fault)
           evs == CallbackEvents(e, out)
       IN /\ entries' = IF out.header
                        THEN Append(entries, [name |-> out.name, src |-> idx,
                                              complete |-> ~out.err,
                                              image |-> out.image])
                        ELSE entries
          /\ events' = events \o Delivered(evs, callbacks)
          /\ processedFiles' =
                 IF /\ entry = "CreateArchiveWithProgress" /\ out.header /\ ~out.err
                    /\ \A j \in DOMAIN evs :
                           evs[j].type = "file" => ~IsNil(evs[j], callbacks)
                 THEN processedFiles + 1 ELSE processedFiles
          /\ walkErr' = (walkErr \/ out.err)
          /\ failKind' = IF Panics(evs, callbacks) THEN "panic"
                         ELSE IF out.err THEN out.kind ELSE failKind
          /\ pc' = IF Panics(evs, callbacks) THEN NextDeferred(0)
                   ELSE AfterCallback(out.err)
          /\ idx' = IF out.err \/ Panics(evs, callbacks) THEN idx ELSE idx + 1
          /\ decodeLog' =
                 decodeLog \o [j \in DOMAIN out.decode |->
                                  [src |-> idx, res |-> out.decode[j]]]
    /\ UNCHANGED <<entry, format, tree, strategy, target, disk, closeLog,
                   zipRes, lookups, cmds, removeDeferred, totalFiles, result,
                   callbacks,
                   driverVars, screenVars>>

\* filepath.Walk returned nil: the completion message, then return nil.
WalkDone ==
    /\ pc = "walk"
    /\ idx > Len(tree)
    /\ LET completed ==
               IF entry = "CreateArchiveWithProgress"
               THEN <<[type |-> "progress", processed |-> processedFiles,
                       total |-> totalFiles, msg |-> "completed",
                       file |-> Base(SourceDir)]>>
               ELSE <<>>
       IN /\ events' = events \o Delivered(completed, callbacks)
          /\ failKind' = IF Panics(completed, callbacks) THEN "panic"
                         ELSE failKind
    /\ pc' = NextDeferred(0)
    /\ UNCHANGED <<entry, format, tree, strategy, target, disk, entries, idx,
                   walkErr, closeLog, zipRes, lookups, cmds,
                   removeDeferred, processedFiles, totalFiles, result,
                   decodeLog, callbacks,
                   driverVars, screenVars>>

\* The value the packager returns: the walk's error, nothing of the closes.
ZipResult(err) == IF err THEN "err" ELSE "ok"

\* What the caller of the packager gets once the deferred calls have run: the
\* panic of a nil callback going on, else the returned value.
Outcome(err, kind) == IF kind = "panic" THEN "panic" ELSE ZipResult(err)

\* defer zipWriter.Close(): writes the central directory; its error is dropped.

\* defer zipWriter.Close(): writes the central directory; its error is dropped.
WriterClose(ok) ==
    /\ pc = "wclose"
    /\ LET done == ok /\ CanClose("writer", closeLog) IN
       /\ closeLog' = Append(closeLog, [what |-> "writer", ok |-> done])
       /\ disk' = IF done THEN [disk EXCEPT ![target].finalized = TRUE] ELSE disk
    /\ pc' = NextDeferred(Len(closeLog'))
    /\ zipRes' = IF pc' = "zipret" THEN Outcome(walkErr, failKind) ELSE zipRes
    /\ UNCHANGED <<entry, format, tree, strategy, target, entries, idx, walkErr,
                   failKind, lookups, cmds, removeDeferred, events,
                   processedFiles, totalFiles, result,
                   decodeLog, callbacks,
                   driverVars, screenVars>>

\* defer archiveFile.Close(): its error is dropped; the packager returns.
FileClose(ok) ==
    /\ pc = "fclose"
    /\ closeLog' = Append(closeLog, [what |-> "file",
                                     ok |-> ok /\ CanClose("file", closeLog)])
    /\ pc' = NextDeferred(Len(closeLog'))
    /\ zipRes' = IF pc' = "zipret" THEN Outcome(walkErr, failKind) ELSE zipRes
    /\ UNCHANGED <<entry, format, tree, strategy, target, disk, entries, idx,
                   walkErr, failKind, lookups, cmds, removeDeferred, events,
                   processedFiles, totalFiles, result,
                   decodeLog, callbacks,
                   driverVars, screenVars>>

\* The caller of the packager gets its result: the entry point returns it,
\* or CreateRarArchive / Create7zArchive returns its error, or registers the
\* removal of the temp file and goes on to the subprocess.
ZipReturn ==
    /\ pc = "zipret"
    /\ IF strategy = "zip"
       THEN result' = zipRes /\ pc' = "done" /\ removeDeferred' = removeDeferred
       ELSE IF zipRes = "err"
            THEN result' = "err" /\ pc' = "done" /\ removeDeferred' = removeDeferred
            ELSE result' = result /\ pc' = "run" /\ removeDeferred' = TRUE
    /\ UNCHANGED <<entry, format, tree, strategy, target, disk, entries, idx,
                   walkErr, failKind, closeLog, zipRes, lookups, cmds, events,
                   processedFiles, totalFiles,
                   decodeLog, callbacks,
                   driverVars, screenVars>>

-----------------------------------------------------------------------------
(* External repack: the subprocess and the clean-up *)

\* cmd.Run()
CmdRun(exitOK) ==
    /\ pc = "run"
    /\ cmds' = Append(cmds, [cmd |-> Command(strategy, ArchivePath, target),
                             ok |-> exitOK])
    /\ disk' = IF exitOK THEN [disk EXCEPT ![ArchivePath] = Repacked(strategy)]
               ELSE disk
    /\ result' = IF exitOK THEN "ok" ELSE "err"
    /\ removeDeferred' = (removeDeferred /\ RemoveAfterRun(exitOK))
    /\ pc' = "remove"
    /\ UNCHANGED <<entry, format, tree, strategy, target, entries, idx, walkErr,
                   failKind, closeLog, zipRes, lookups, events, processedFiles,
                   totalFiles,
                   decodeLog, callbacks,
                   driverVars, screenVars>>

\* The deferred os.Remove(tempZipPath) runs, its error is discarded, and the
\* entry point returns. A removal that fails leaves the file.
OsRemove(ok) ==
    /\ pc = "remove"
    /\ disk' = IF removeDeferred /\ ok THEN [disk EXCEPT ![target] = Absent]
               ELSE disk
    /\ pc' = "done"
    /\ UNCHANGED <<entry, format, tree, strategy, target, entries, idx, walkErr,
                   failKind, closeLog, zipRes, lookups, cmds, removeDeferred,
                   events, processedFiles, totalFiles, result,
                   decodeLog, callbacks,
                   driverVars, screenVars>>

-----------------------------------------------------------------------------

Next ==
    \/ \E f \in Formats, t \in Trees : CreateArchive(f, t)
    \/ \E t \in Trees : CreateSilentZipArchive(t)
    \/ \E f \in ProgressFormats, t \in Trees, stop \in 0 .. MaxFiles + 1 :
           CreateArchiveWithProgress(f, t, stop)
    \/ \E found \in BOOLEAN : LookPath(found)
    \/ \E ok \in BOOLEAN : OsCreate(ok)
    \/ \E fault \in Faults : WalkStep(fault)
    \/ WalkDone
    \/ \E ok \in BOOLEAN : WriterClose(ok)
    \/ \E ok \in BOOLEAN : FileClose(ok)
    \/ ZipReturn
    \/ \E exitOK \in BOOLEAN : CmdRun(exitOK)
    \/ \E ok \in BOOLEAN : OsRemove(ok)

Spec == Init /\ [][Next]_vars

\* The silent packager on the single-file trees.
NextFiles ==
    \/ \E t \in NameTrees : CreateSilentZipArchive(t)
    \/ \E ok \in BOOLEAN : OsCreate(ok)
    \/ \E fault \in Faults : WalkStep(fault)
    \/ WalkDone
    \/ \E ok \in BOOLEAN : WriterClose(ok)
    \/ \E ok \in BOOLEAN : FileClose(ok)
    \/ ZipReturn

SpecFiles == Init /\ [][NextFiles]_vars

\* The progress packager built with any of its two callbacks nil or not.
NextCallbacks ==
    \/ \E progress, file \in BOOLEAN : NewProgressArchive(progress, file)
    \/ \E fmt \in ProgressFormats, t \in Trees, stop \in 0 .. MaxFiles + 1 :
           CreateArchiveWithProgress(fmt, t, stop)
    \/ \E ok \in BOOLEAN : OsCreate(ok)
    \/ \E fault \in Faults : WalkStep(fault)
    \/ WalkDone
    \/ \E ok \in BOOLEAN : WriterClose(ok)
    \/ \E ok \in BOOLEAN : FileClose(ok)
    \/ ZipReturn

SpecCallbacks == Init /\ [][NextCallbacks]_vars

-----------------------------------------------------------------------------
(* Callers driving several conversions. A conversion is a call that returns
   nil or an error; what it does is the machine above. *)

\* The items of a run, named by their place in the list.
ItemList(n) == [i \in 1 .. n |-> i]

\* directories[index] for Go's 0-based index.
ItemAt(dirs, index) == dirs[index + 1]

\* archive.CreateArchive started with a go statement: the loop goes on.
CreateArchiveCallGo == "loop"

\* err = archive.CreateArchive(...): the loop is in the call until it returns.
CreateArchiveCall == "call"

RECURSIVE AncestorsOrSelf(_, _)
\* The directory at place i of the list and the listed directories it lies
\* in; par[i] is the place of the directory holding i, 0 for the root.
AncestorsOrSelf(par, i) ==
    IF i = 0 THEN {} ELSE {i} \cup AncestorsOrSelf(par, par[i])

\* What filepath.Walk(rootPath) collects: every directory below the root, at
\* any depth, a directory before the directories in it (lexical pre-order).
\* A collected list of n directories is given by the place of each one's
\* parent.
Nestings(n) ==
    { par \in [1 .. n -> 0 .. n] :
        \A i \in 1 .. n :
            /\ par[i] < i
            /\ par[i] # 0 => par[i] \in AncestorsOrSelf(par, i - 1) }

\* What os.RemoveAll(directories[i]) removes: the directory and all in it.
Subtree(par, i) == { j \in DOMAIN par : i \in AncestorsOrSelf(par, j) }

\* What os.RemoveAll(directories[i]) may have removed when it returns: a
\* directory goes after everything in it, and the call stops at an entry it
\* cannot remove, so the listed directories that are gone hold all their
\* listed subdirectories. All of the subtree is the call without an error.
RemoveAllOutcomes(par, i) ==
    { gone \in SUBSET Subtree(par, i) :
        \A j \in gone : Subtree(par, j) \subseteq gone }

\* The directory list without the directories inside listed directories.
NestingsFlat(n) == { [i \in 1 .. n |-> 0] }

\* processDirectoryRecursively, once the directories are collected.
ProcessDirectoryRecursively(par, del) ==
    /\ driver = "none"
    /\ driver' = "cli"
    /\ directories' = ItemList(Len(par))
    /\ parentOf' = par
    /\ deleteOriginal' = del
    /\ loopAt' = 0
    /\ dpc' = "loop"
    /\ UNCHANGED <<conversionVars, restarted, conversionLog,
                   msgs, inUpdate, active, started, finished,
                   removed, state, operationMode, currentDir, totalDirs,
                   completedDirs, screenVars>>

\* The loop body up to the call of archive.CreateArchive.
CliCreateArchive ==
    /\ driver = "cli" /\ dpc = "loop"
    /\ loopAt < Len(directories)
    /\ started' = Append(started, loopAt)
    /\ active' = active + 1
    /\ dpc' = CreateArchiveCall
    /\ loopAt' = IF dpc' = "call" THEN loopAt ELSE loopAt + 1
    /\ UNCHANGED <<conversionVars, restarted, conversionLog,
                   driver, directories, deleteOriginal, msgs,
                   inUpdate, finished, removed, state, operationMode,
                   currentDir, totalDirs, completedDirs, parentOf, screenVars>>

\* archive.CreateArchive returns: on an error, continue; else os.RemoveAll
\* when the option is set (its error is printed only, whatever it removed
\* stays removed). The conversion of a directory that is no longer there
\* returns an error.
CliCreateArchiveReturn(ok) ==
    /\ driver = "cli" /\ active > 0
    /\ dpc = "call" \/ CreateArchiveCall # "call"
    /\ LET index == started[Len(finished) + 1] IN
       /\ ok => ItemAt(directories, index) \notin removed
       /\ finished' = Append(finished, [index |-> index, ok |-> ok])
       /\ \E gone \in (IF ok /\ deleteOriginal
                       THEN RemoveAllOutcomes(parentOf, index + 1)
                       ELSE { {} }) :
              removed' = removed \cup { directories[j] : j \in gone }
    /\ active' = active - 1
    /\ IF dpc = "call"
       THEN dpc' = "loop" /\ loopAt' = loopAt + 1
       ELSE UNCHANGED <<dpc, loopAt>>
    /\ UNCHANGED <<conversionVars, restarted, conversionLog,
                   driver, directories, deleteOriginal, msgs,
                   inUpdate, started, state, operationMode, currentDir,
                   totalDirs, completedDirs, parentOf, screenVars>>

\* The loop is over: return nil.
CliReturn ==
    /\ driver = "cli" /\ dpc = "loop"
    /\ loopAt >= Len(directories)
    /\ dpc' = "exit"
    /\ UNCHANGED <<conversionVars, restarted, conversionLog,
                   driver, directories, deleteOriginal, loopAt,
                   msgs, inUpdate, active, started, finished, removed, state,
                   operationMode, currentDir, totalDirs, completedDirs,
                   parentOf, screenVars>>

-----------------------------------------------------------------------------
(* The screens of the TUI: Model.Update on key and window-size messages *)

\* Model.formats
formats == <<"CBZ (ZIP)", "CBR (RAR)", "CB7Z (7Z)">>

\* Characters typed into the directory path: the paths are a, aa, ... up to
\* MaxPathLen characters.
PathChars == {"a"}

\* Window heights: at and well above the height that gives the smallest
\* page.
Heights == {15, 20}

\* The visible entries of a directory, in the order os.ReadDir returns them,
\* each a directory or a file; a failing os.ReadDir is the listing
\* ReadDirFails.
RECURSIVE Listings(_)
Listings(n) ==
    IF n = 0 THEN { <<>> }
    ELSE Listings(n - 1) \cup
         { Append(l, k) : l \in { x \in Listings(n - 1) : Len(x) = n - 1 },
                          k \in {"dir", "file"} }

ReadDirFails == <<"error">>

\* The name of the i-th entry of the directory at path.
EntryName(path, i) == <<path, i>>

\* Index of the entry at which determineOperationMode has seen both a file
\* and a directory, 0 if there is none.
FirstMixed(listing) ==
    LET mixed == { i \in DOMAIN listing :
                     \E j \in 1 .. i : listing[j] # listing[i] }
    IN IF mixed = {} THEN 0
       ELSE CHOOSE i \in mixed : \A j \in mixed : i <= j

\* determineOperationMode: the items appended, the mode set, the error.
DetermineOperationMode(path, listing, mode) ==
    IF listing = ReadDirFails
    THEN [err |-> TRUE, availableItems |-> <<>>, operationMode |-> mode]
    ELSE IF FirstMixed(listing) # 0
    THEN [err |-> TRUE,
          availableItems |-> [i \in 1 .. FirstMixed(listing) |-> EntryName(path, i)],
          operationMode |-> mode]
    ELSE IF listing = <<>>
    THEN [err |-> TRUE, availableItems |-> <<>>, operationMode |-> mode]
    ELSE [err |-> FALSE,
          availableItems |-> [i \in DOMAIN listing |-> EntryName(path, i)],
          operationMode |-> IF listing[1] = "dir" THEN "ModeDirectories"
                            ELSE "ModeFiles"]

\* A restart that keeps the selection of the run before.
InitialSelectedItemsKept(old) == old

\* selectedItems: make(map[string]bool)
InitialSelectedItems(old) == {}

\* The program starts with InitialModel(): the fields have the values of Init.
InitialModel ==
    /\ driver = "none"
    /\ driver' = "tui"
    /\ UNCHANGED <<conversionVars, restarted, conversionLog,
                   directories, deleteOriginal, loopAt, dpc,
                   parentOf, msgs, inUpdate, active, started, finished, removed,
                   state, operationMode, currentDir, totalDirs, completedDirs,
                   screenVars>>

\* The event loop runs: the program has not ended. A returned tea.Quit ends
\* it only when its QuitMsg is read.
Running == driver = "tui" /\ quit \in {"no", "quitting"}

\* Update is called with a message: the program runs and no Update is running.
CanUpdate == Running /\ inUpdate = <<>>

\* The event loop reads the QuitMsg of a returned tea.Quit and ends the
\* program; the messages still waiting are never handled.
QuitMsg ==
    /\ CanUpdate /\ quit = "quitting"
    /\ quit' = "quit"
    /\ UNCHANGED <<conversionVars, driverVars, directoryPath, availableItems,
                   selectedItems, cursor, itemStartIndex, itemsPerPage,
                   selectedFormat, archive>>

\* Update on tea.WindowSizeMsg.
UpdateWindowSizeMsg(height) ==
    /\ CanUpdate
    /\ itemsPerPage' = IF height - 10 < 5 THEN 5 ELSE height - 10
    /\ UNCHANGED <<conversionVars, driverVars, directoryPath, availableItems,
                   selectedItems, cursor, itemStartIndex, selectedFormat, quit,
                   archive>>

DirectoryKeys == {"q", "enter", "backspace"} \cup PathChars

\* updateDirectorySelection. exists is what os.Stat finds, listing what
\* os.ReadDir returns.
UpdateDirectorySelection(key, exists, listing) ==
    /\ CanUpdate /\ state = "StateSelectDirectory"
    /\ IF key = "q"
       THEN /\ quit' = "quitting"
            /\ UNCHANGED <<state, directoryPath, availableItems, operationMode,
                           cursor>>
       ELSE IF key = "enter"
       THEN /\ UNCHANGED <<quit, directoryPath>>
            /\ IF directoryPath = <<>>
               THEN UNCHANGED <<state, availableItems, operationMode, cursor>>
               ELSE IF ~exists
               THEN /\ state' = "StateError"
                    /\ UNCHANGED <<availableItems, operationMode, cursor>>
               ELSE LET d == DetermineOperationMode(directoryPath, listing,
                                                    operationMode)
                    IN /\ availableItems' = d.availableItems
                       /\ operationMode' = d.operationMode
                       /\ state' = IF d.err THEN "StateError"
                                   ELSE "StateSelectItems"
                       /\ cursor' = IF d.err THEN cursor ELSE 0
       ELSE IF key = "backspace"
       THEN /\ directoryPath' = IF directoryPath = <<>> THEN directoryPath
                                ELSE SubSeq(directoryPath, 1, Len(directoryPath) - 1)
            /\ UNCHANGED <<quit, state, availableItems, operationMode, cursor>>
       ELSE /\ Len(directoryPath) < MaxPathLen
            /\ directoryPath' = Append(directoryPath, key)
            /\ UNCHANGED <<quit, state, availableItems, operationMode, cursor>>
    /\ UNCHANGED <<conversionVars, restarted, conversionLog,
                   driver, directories, deleteOriginal, loopAt,
                   dpc, parentOf, msgs, inUpdate, active, started, finished,
                   removed, currentDir, totalDirs, completedDirs, selectedItems,
                   itemStartIndex, itemsPerPage, selectedFormat, archive>>

ItemKeys == {"q", "up", "down", "space", "enter", "a", "n"}

\* Enter that leaves the screen whatever is selected.
AnySelectedAlways(selected) == TRUE

\* len(m.selectedItems) > 0, the condition of the enter key.
AnySelected(selected) == Cardinality(selected) > 0

\* updateItemSelection. The cursor and the start index are 0-based.
UpdateItemSelection(key) ==
    /\ CanUpdate /\ state = "StateSelectItems"
    /\ quit' = IF key = "q" THEN "quitting" ELSE quit
    /\ cursor' = IF key = "up" /\ cursor > 0 THEN cursor - 1
                 ELSE IF key = "down" /\ cursor < Len(availableItems) - 1
                 THEN cursor + 1
                 ELSE cursor
    /\ itemStartIndex' =
           IF key = "up" /\ cursor > 0 /\ cursor' < itemStartIndex
           THEN cursor'
           ELSE IF key = "down" /\ cursor < Len(availableItems) - 1
                   /\ cursor' >= itemStartIndex + itemsPerPage
           THEN cursor' - itemsPerPage + 1
           ELSE itemStartIndex
    /\ selectedItems' =
           IF key = "space" /\ cursor >= 0 /\ cursor < Len(availableItems)
           THEN IF availableItems[cursor + 1] \in selectedItems
                THEN selectedItems \ {availableItems[cursor + 1]}
                ELSE selectedItems \cup {availableItems[cursor + 1]}
           ELSE IF key = "a"
           THEN selectedItems \cup { availableItems[i] : i \in DOMAIN availableItems }
           ELSE IF key = "n" THEN {}
           ELSE selectedItems
    /\ state' = IF key = "enter" /\ AnySelected(selectedItems)
                THEN "StateSelectFormat"
                ELSE state
    /\ UNCHANGED <<conversionVars, restarted, conversionLog,
                   driver, directories, deleteOriginal, loopAt,
                   dpc, parentOf, msgs, inUpdate, active, started, finished,
                   removed, operationMode, currentDir, totalDirs, completedDirs,
                   directoryPath, availableItems, itemsPerPage, selectedFormat,
                   archive>>

\* The command countDirectories returns: a function not yet run, holding a
\* copy of the model as it is when enter is pressed. The copy shares the map
\* selectedItems with the model.
CountDirectories ==
    [type |-> "countDirectories", directoryPath |-> directoryPath]

FormatKeys == {"q", "up", "down", "enter", "tab"}

\* updateFormatSelection. formats[cursor] with the cursor out of range is a
\* run-time panic, which ends the program.
UpdateFormatSelection(key) ==
    /\ CanUpdate /\ state = "StateSelectFormat"
    /\ cursor' = IF key = "up" /\ cursor > 0 THEN cursor - 1
                 ELSE IF key = "down" /\ cursor < Len(formats) - 1
                 THEN cursor + 1
                 ELSE cursor
    /\ deleteOriginal' = IF key = "tab" THEN ~deleteOriginal ELSE deleteOriginal
    /\ IF key = "enter"
       THEN IF cursor + 1 \in DOMAIN formats
            THEN /\ selectedFormat' = formats[cursor + 1]
                 /\ state' = "StateProcessing"
                 /\ msgs' = msgs \cup {CountDirectories}
                 /\ quit' = quit
            ELSE /\ quit' = "panic"
                 /\ UNCHANGED <<selectedFormat, state, msgs>>
       ELSE /\ quit' = IF key = "q" THEN "quitting" ELSE quit
            /\ UNCHANGED <<selectedFormat, state, msgs>>
    /\ UNCHANGED <<conversionVars, restarted, conversionLog,
                   driver, directories, loopAt, dpc, parentOf,
                   inUpdate, active, started, finished, removed, operationMode,
                   currentDir, totalDirs, completedDirs, directoryPath,
                   availableItems, selectedItems, itemStartIndex, itemsPerPage,
                   archive>>

\* updateProcessing: the quit keys.
UpdateProcessing ==
    /\ CanUpdate /\ state = "StateProcessing"
    /\ quit' = "quitting"
    /\ UNCHANGED <<conversionVars, driverVars, directoryPath, availableItems,
                   selectedItems, cursor, itemStartIndex, itemsPerPage,
                   selectedFormat, archive>>

\* The ProgressMsg values ProgressArchive builds: CurrentDirNum and TotalDirs
\* are 1 in all of them.
ProgressMsgs == { [type |-> "ProgressMsg", CurrentDirNum |-> 1, TotalDirs |-> 1] }

\* Update on ProgressMsg. The fields shown only (currentDirName,
\* processedFiles, totalFiles, processingMsg) are not kept here.
UpdateProgressMsg(msg) ==
    /\ CanUpdate
    /\ currentDir' = msg.CurrentDirNum
    /\ totalDirs' = msg.TotalDirs
    /\ UNCHANGED <<conversionVars, restarted, conversionLog, driver,
                   directories, deleteOriginal, loopAt, dpc, parentOf, msgs,
                   inUpdate, active, started, finished, removed, state,
                   operationMode, completedDirs, screenVars>>

\* The FileProcessedMsg values addImageAsWebPToZip builds for a file a.png:
\* FileType is the format string DecodeImage returned for what the file
\* holds, and the message is built only when decoding succeeded.
FileProcessedMsgs ==
    { [type |-> "FileProcessedMsg", FileName |-> "a.png",
       FileType |-> DecodeImage(content).format, ConvertedTo |-> "WebP"] :
        content \in { c \in Contents : DecodeImage(c).ok } }

\* Number of log entries Update keeps.
LogKept == 10

\* The last n entries of a log.
Last(log, n) == SubSeq(log, Len(log) - n + 1, Len(log))

\* Update on FileProcessedMsg: the entry is appended and the last LogKept
\* entries are kept.
UpdateFileProcessedMsg(msg) ==
    /\ CanUpdate
    /\ Len(conversionLog) < MaxLogged
    /\ LET log == Append(conversionLog, <<msg.FileName, msg.FileType, msg.ConvertedTo>>)
       IN conversionLog' = IF Len(log) > LogKept THEN Last(log, LogKept) ELSE log
    /\ UNCHANGED <<conversionVars, restarted, driver, directories,
                   deleteOriginal, loopAt, dpc, parentOf, msgs, inUpdate,
                   active, started, finished, removed, state, operationMode,
                   currentDir, totalDirs, completedDirs, screenVars>>

CompleteKeys == {"q", "r"}

\* updateComplete, in StateComplete and StateError: quit, or restart with
\* InitialModel(). The records of the run (the conversions called, the items
\* removed, the archive written) begin anew with a restart.
UpdateComplete(key) ==
    /\ CanUpdate /\ state \in {"StateComplete", "StateError"}
    /\ IF key = "q"
       THEN /\ quit' = "quitting"
            /\ UNCHANGED <<state, directoryPath, selectedFormat, deleteOriginal,
                           cursor, operationMode, selectedItems, itemsPerPage,
                           availableItems, itemStartIndex, completedDirs,
                           totalDirs, currentDir, directories, started,
                           finished, removed, archive>>
       ELSE /\ quit' = quit
            /\ directories' = <<>>
            /\ started' = <<>>
            /\ finished' = <<>>
            /\ removed' = {}
            /\ archive' = <<>>
            /\ state' = "StateSelectDirectory"
            /\ directoryPath' = <<>>
            /\ selectedFormat' = formats[1]
            /\ deleteOriginal' = FALSE
            /\ cursor' = 0
            /\ operationMode' = "ModeUnknown"
            /\ selectedItems' = InitialSelectedItems(selectedItems)
            /\ itemsPerPage' = 10
            /\ availableItems' = <<>>
            /\ itemStartIndex' = 0
            /\ completedDirs' = <<>>
            /\ totalDirs' = 0
            /\ currentDir' = 0
    /\ restarted' = (restarted \/ key = "r")
    /\ conversionLog' = IF key = "r" THEN <<>> ELSE conversionLog
    /\ UNCHANGED <<conversionVars, driver, loopAt, dpc, parentOf, msgs,
                   inUpdate, active>>

-----------------------------------------------------------------------------
(* The processing chain of the TUI *)

\* The messages of the processing chain. Directories is the same list in
\* all of them and is kept in the variable directories.
ProcessDirectoryMsg(index, completed) ==
    [type |-> "ProcessDirectoryMsg", CurrentIndex |-> index,
     CompletedDirs |-> completed]

ProcessingCompleteMsg(completed) ==
    [type |-> "ProcessingCompleteMsg", CurrentIndex |-> 0,
     CompletedDirs |-> completed]

\* A chain that never sends its first message.
ProcessDirectoriesNone == {}

\* The message of the command processDirectories returns.
ProcessDirectories == { ProcessDirectoryMsg(0, <<>>) }

\* The orders in which ranging over a map yields its keys: any.
Orders(keys) ==
    { dirs \in [1 .. Cardinality(keys) -> keys] :
        \A i, j \in DOMAIN dirs : i # j => dirs[i] # dirs[j] }

DirectoryCountMsg(items) ==
    [type |-> "DirectoryCountMsg", TotalDirs |-> Len(items),
     Directories |-> items]

\* The runtime runs the command countDirectories, outside Update: it ranges
\* over the map selectedItems and returns a DirectoryCountMsg, which waits
\* for the event loop.
RunCountDirectories ==
    \E cmd \in msgs :
        /\ Running
        /\ cmd.type = "countDirectories"
        /\ \E items \in Orders(selectedItems) :
               msgs' = (msgs \ {cmd}) \cup {DirectoryCountMsg(items)}
        /\ UNCHANGED <<conversionVars, restarted, conversionLog,
                   driver, directories,
                       deleteOriginal, loopAt, dpc, parentOf, inUpdate, active,
                       started, finished, removed, state, operationMode,
                       currentDir, totalDirs, completedDirs, screenVars>>

\* Update on DirectoryCountMsg: processing starts with the command
\* processDirectories(msg.Directories).
UpdateDirectoryCountMsg ==
    \E msg \in msgs :
        /\ CanUpdate
        /\ msg.type = "DirectoryCountMsg"
        /\ totalDirs' = msg.TotalDirs
        /\ state' = "StateProcessing"
        /\ directories' = msg.Directories
        /\ msgs' = (msgs \ {msg}) \cup ProcessDirectories
        /\ UNCHANGED <<conversionVars, restarted, conversionLog,
                   driver, deleteOriginal, loopAt, dpc,
                       parentOf, inUpdate, active, started, finished, removed,
                       operationMode, currentDir, completedDirs, screenVars>>

\* Update on ProcessDirectoryMsg, up to the call of CreateSilentZipArchive.
\* Bubble Tea calls Update with one message at a time. Past the last index
\* the handler returns the command sending ProcessingCompleteMsg; in file
\* mode a failing os.MkdirTemp or copyFile ends the chain in StateError.
UpdateProcessDirectoryMsg(prepared) ==
    \E msg \in msgs :
        /\ CanUpdate
        /\ msg.type = "ProcessDirectoryMsg"
        /\ IF msg.CurrentIndex >= Len(directories)
           THEN /\ msgs' = (msgs \ {msg}) \cup {ProcessingCompleteMsg(msg.CompletedDirs)}
                /\ UNCHANGED <<currentDir, state, started, active, inUpdate>>
           ELSE /\ msgs' = msgs \ {msg}
                /\ currentDir' = msg.CurrentIndex + 1
                /\ IF operationMode = "ModeFiles" /\ ~prepared
                   THEN /\ state' = "StateError"
                        /\ UNCHANGED <<started, active, inUpdate>>
                   ELSE /\ started' = Append(started, msg.CurrentIndex)
                        /\ active' = active + 1
                        /\ inUpdate' = <<msg>>
                        /\ state' = state
        /\ UNCHANGED <<conversionVars, restarted, conversionLog,
                   driver, directories, deleteOriginal,
                       loopAt, dpc, parentOf, finished, removed, operationMode,
                       totalDirs, completedDirs, screenVars>>

\* The archive a file-mode conversion leaves at <directory>/<name>.<format>
\* once os.Create has truncated the file there: the entries of the temporary
\* directory, which holds the one file copied into it. A conversion that
\* fails once the header of the entry is created leaves the entry
\* incomplete, the deferred Close writing the archive all the same; one that
\* fails before leaves no entry.
ArchiveOfTempDir(item, ok, header) ==
    IF ok THEN <<[item |-> item, complete |-> TRUE]>>
    ELSE IF header THEN <<[item |-> item, complete |-> FALSE]>>
    ELSE <<>>

\* CreateSilentZipArchive returns to the handler of ProcessDirectoryMsg: the
\* item is appended to the completed ones and removed (option set) when err
\* is nil; the handler returns the command that sleeps and sends the message
\* for the next index.
UpdateConversionReturn(ok, created, header, rmOK) ==
    /\ driver = "tui" /\ inUpdate # <<>>
    /\ ok => header
    /\ header => created
    /\ LET msg  == inUpdate[1]
           item == ItemAt(directories, msg.CurrentIndex)
           completed == IF ok THEN Append(msg.CompletedDirs, item)
                        ELSE msg.CompletedDirs
       IN /\ finished' = Append(finished, [index |-> msg.CurrentIndex, ok |-> ok])
          /\ removed' = IF ok /\ deleteOriginal /\ rmOK
                        THEN removed \cup {item} ELSE removed
          /\ msgs' = msgs \cup {ProcessDirectoryMsg(msg.CurrentIndex + 1, completed)}
          /\ archive' = IF operationMode = "ModeFiles" /\ created
                        THEN ArchiveOfTempDir(item, ok, header)
                        ELSE archive
    /\ active' = active - 1
    /\ inUpdate' = <<>>
    /\ UNCHANGED <<conversionVars, restarted, conversionLog,
                   driver, directories, deleteOriginal, loopAt,
                   dpc, parentOf, started, state, operationMode, currentDir,
                   totalDirs, completedDirs, directoryPath, availableItems,
                   selectedItems, cursor, itemStartIndex, itemsPerPage,
                   selectedFormat, quit>>

\* Update on ProcessingCompleteMsg.
UpdateProcessingCompleteMsg ==
    \E msg \in msgs :
        /\ CanUpdate
        /\ msg.type = "ProcessingCompleteMsg"
        /\ msgs' = msgs \ {msg}
        /\ state' = "StateComplete"
        /\ completedDirs' = msg.CompletedDirs
        /\ totalDirs' = Len(directories)
        /\ UNCHANGED <<conversionVars, restarted, conversionLog,
                   driver, directories, deleteOriginal,
                       loopAt, dpc, parentOf, inUpdate, active, started,
                       finished, removed, operationMode, currentDir,
                       screenVars>>

OperationModes == {"ModeDirectories", "ModeFiles"}

\* The CLI loop, and the TUI on directories of at most MaxItems entries.
NextDrive ==
    \/ \E n \in 0 .. MaxItems, del \in BOOLEAN :
           \E par \in Nestings(n) : ProcessDirectoryRecursively(par, del)
    \/ CliCreateArchive
    \/ \E ok \in BOOLEAN : CliCreateArchiveReturn(ok)
    \/ CliReturn
    \/ InitialModel
    \/ \E height \in Heights : UpdateWindowSizeMsg(height)
    \/ \E key \in DirectoryKeys, exists \in BOOLEAN,
          listing \in Listings(MaxItems) \cup {ReadDirFails} :
           UpdateDirectorySelection(key, exists, listing)
    \/ \E key \in ItemKeys : UpdateItemSelection(key)
    \/ \E key \in FormatKeys : UpdateFormatSelection(key)
    \/ UpdateProcessing
    \/ \E key \in CompleteKeys : UpdateComplete(key)
    \/ QuitMsg
    \/ RunCountDirectories
    \/ UpdateDirectoryCountMsg
    \/ \E prepared \in BOOLEAN : UpdateProcessDirectoryMsg(prepared)
    \/ \E ok, created, header, rmOK \in BOOLEAN :
           UpdateConversionReturn(ok, created, header, rmOK)
    \/ UpdateProcessingCompleteMsg
    \/ \E msg \in ProgressMsgs : UpdateProgressMsg(msg)

SpecDrive == Init /\ [][NextDrive]_vars

\* The screens of the TUI up to the start of processing, on directories of
\* at most MaxAvail entries, with the conversion log.
NextSelect ==
    \/ InitialModel
    \/ \E height \in Heights : UpdateWindowSizeMsg(height)
    \/ \E key \in DirectoryKeys, exists \in BOOLEAN,
          listing \in Listings(MaxAvail) \cup {ReadDirFails} :
           UpdateDirectorySelection(key, exists, listing)
    \/ \E key \in ItemKeys : UpdateItemSelection(key)
    \/ \E key \in FormatKeys : UpdateFormatSelection(key)
    \/ UpdateProcessing
    \/ \E key \in CompleteKeys : UpdateComplete(key)
    \/ QuitMsg
    \/ \E msg \in FileProcessedMsgs : UpdateFileProcessedMsg(msg)

SpecSelect == Init /\ [][NextSelect]_vars

-----------------------------------------------------------------------------
(* Vocabulary of the properties *)

NativeNames == CaseVariants(zip) \cup CaseVariants(cbz)
RarNames    == CaseVariants(rar) \cup CaseVariants(cbr)
SevenNames  == CaseVariants(z7) \cup CaseVariants(cb7z)
KnownNames  == NativeNames \cup RarNames \cup SevenNames

TempPath == TempZipPath(ArchivePath)

\* The packager has returned to its caller.
ZipReturned == pc \in {"zipret", "run", "remove", "done"} /\ zipRes # "none"

\* Number of executed closes of the zip writer.
WriterCloses == Cardinality({ j \in DOMAIN closeLog : closeLog[j].what = "writer" })

\* An entry with an image extension whose bytes no decoder parses.
Undecodable(e) ==
    /\ ~e.isDir
    /\ ToLower(Ext(e.path)) \in ImageExts
    /\ ~JpegDecodes(e.content) /\ ~PngDecodes(e.content)
    /\ ~GifDecodes(e.content) /\ ~GenericDecodes(e.content)

-----------------------------------------------------------------------------
(* C1 *)

\* C1: once the zip packager has returned success, the writer holds exactly
\* one entry for every non-directory file of the walk and none for a
\* directory, so the number of entries equals the number of files walked.
C1_OneEntryPerFile ==
    (ZipReturned /\ zipRes = "ok") =>
        /\ Len(entries) = NumFiles(tree)
        /\ \A i \in DOMAIN tree :
              Cardinality({ k \in DOMAIN entries : entries[k].src = i })
                  = IF tree[i].isDir THEN 0 ELSE 1
        /\ \A k \in DOMAIN entries : entries[k].complete

\* A successful return for a walk with two files or more and a subdirectory.
C1_Witness ==
    /\ ZipReturned /\ zipRes = "ok"
    /\ NumFiles(tree) >= 2
    /\ \E i \in DOMAIN tree : i > 1 /\ tree[i].isDir

-----------------------------------------------------------------------------
(* C2 *)

\* C2: when adding a file fails during the walk, the walk is over: the callback
\* is not run again, no entry of a later file is started, the packager and the
\* entry point return the error, and the output file the packager created is
\* still on disk when it returns.
C2_StopAtFirstFailure ==
    walkErr =>
        /\ pc \in {"wclose", "fclose", "zipret", "done"}
        /\ \A k \in DOMAIN entries : entries[k].src <= idx
        /\ zipRes # "ok"
        /\ (pc \in {"zipret", "done"} => zipRes = "err" /\ disk[target].exists)
        /\ (pc = "done" => result = "err")

\* A failure on a file that has an entry before it and a file after it.
C2_Witness ==
    /\ walkErr /\ pc = "done"
    /\ failKind \in {"decode", "encode", "copy"}
    /\ idx < Len(tree) /\ ~tree[idx + 1].isDir
    /\ \E k \in DOMAIN entries : entries[k].src < idx

-----------------------------------------------------------------------------
(* C3 *)

\* C3 as stated: when an image fails to decode, the close of the zip writer
\* is not executed.
C3_CloseNotExecuted ==
    (walkErr /\ failKind = "decode") => WriterCloses = 0

\* C3, amended: a source tree holding an undecodable image makes every entry
\* point return an error and no entry is ever created for such a file or for a
\* file after the one that failed to decode; the close of the zip writer is
\* executed once on that path before the packager returns, and finalizes the
\* output file whenever it succeeds.
C3_DecodeFailureFails ==
    /\ (pc = "done" /\ \E i \in DOMAIN tree : Undecodable(tree[i]))
           => result = "err"
    /\ \A k \in DOMAIN entries : ~Undecodable(tree[entries[k].src])
    /\ (failKind = "decode" /\ ZipReturned) =>
           /\ zipRes = "err"
           /\ \A k \in DOMAIN entries : entries[k].src < idx
           /\ WriterCloses = 1
           /\ disk[target].finalized
                  = (\E j \in DOMAIN closeLog :
                        closeLog[j].what = "writer" /\ closeLog[j].ok)

\* A decode failure after one entry was written, with the output finalized.
C3_Witness ==
    /\ failKind = "decode" /\ pc = "done" /\ result = "err"
    /\ Len(entries) >= 1
    /\ disk[target].exists /\ disk[target].finalized

-----------------------------------------------------------------------------
(* C4 *)

\* C4: the zip packager returns success only if the close of the zip writer
\* and the close of the output file both succeeded.
C4_SuccessOnlyIfClosed ==
    (ZipReturned /\ zipRes = "ok") =>
        /\ Len(closeLog) = 2
        /\ \A j \in DOMAIN closeLog : closeLog[j].ok

-----------------------------------------------------------------------------
(* C5 *)

\* C5: an external repack that passed the tool check leaves no temp file
\* when it returns, whatever its outcome.
C5_NoTempFileLeft ==
    (pc = "done" /\ strategy \in {"rar", "7z"} /\
     lookups # <<>> /\ lookups[1].found)
        => ~disk[TempPath].exists

-----------------------------------------------------------------------------
(* C6 *)

\* C6: CreateArchive with a rar/cbr or 7z/cb7z format does nothing before the
\* tool check, and when the check fails it returns an error at once: no
\* output file, no temp file, no zip writer, no subprocess.
C6_ToolMissingFailsFast ==
    LET untouched ==
            /\ ~disk[ArchivePath].exists /\ ~disk[TempPath].exists
            /\ entries = <<>> /\ closeLog = <<>> /\ cmds = <<>>
    IN /\ (entry = "CreateArchive" /\ format \in RarNames \cup SevenNames
              /\ lookups = <<>>) => (pc = "lookpath" /\ untouched)
       /\ (lookups # <<>> /\ ~lookups[1].found) =>
              /\ pc = "done" /\ result = "err"
              /\ Len(lookups) = 1
              /\ untouched

\* The rar tool is missing for the format "CbR".
C6_Witness ==
    /\ pc = "done" /\ entry = "CreateArchive"
    /\ format = <<"C","b","R">>
    /\ lookups = <<[tool |-> "rar", found |-> FALSE]>>

-----------------------------------------------------------------------------
(* C7 *)

\* C7: when the subprocess of an external repack fails, the entry point
\* returns an error and the temp file is gone by then.
C7_TempRemovedOnToolFailure ==
    (pc = "done" /\ cmds # <<>> /\ ~cmds[Len(cmds)].ok) =>
        /\ result = "err"
        /\ ~disk[TempPath].exists

-----------------------------------------------------------------------------
(* C8 *)

\* The external repack with the given tool: the tool is looked up first and
\* alone, the packager writes to the temp path only, the only subprocess is
\* the tool's command on the temp path, and the file at the archive path is
\* the tool's.
ExternalPath(tool) ==
    /\ strategy = tool
    /\ target \in {<<>>, TempPath}
    /\ \A j \in DOMAIN lookups : lookups[j].tool = tool
    /\ (pc \notin {"lookpath", "idle"}) => Len(lookups) = 1
    /\ (pc \in {"create", "walk", "wclose", "fclose", "zipret", "run", "remove"})
           => (lookups[1].found /\ target = TempPath)
    /\ \A j \in DOMAIN cmds :
           cmds[j].cmd = [name |-> tool,
                          args |-> <<"a", IF tool = "rar" THEN "-ep1" ELSE "-t7z",
                                     ArchivePath, TempPath>>]
    /\ disk[ArchivePath].exists => disk[ArchivePath].kind = tool
    /\ (pc = "done" /\ result = "ok") =>
           (Len(cmds) = 1 /\ disk[ArchivePath] = Repacked(tool))

\* The native path: the packager writes to the archive path, there is no tool
\* check, no temp file and no subprocess.
NativePath ==
    /\ strategy = "zip"
    /\ target = ArchivePath
    /\ lookups = <<>> /\ cmds = <<>>
    /\ ~disk[TempPath].exists
    /\ disk[ArchivePath].exists => disk[ArchivePath].kind = "zip"

\* C8: CreateArchive takes the native path for zip and cbz, the external
\* repack with rar for rar and cbr, with 7z for 7z and cb7z, in every letter
\* case of these names.
C8_CaseInsensitiveDispatch ==
    entry = "CreateArchive" =>
        /\ format \in NativeNames => NativePath
        /\ format \in RarNames => ExternalPath("rar")
        /\ format \in SevenNames => ExternalPath("7z")

\* A successful repack for the format "cB7Z".
C8_Witness ==
    /\ entry = "CreateArchive" /\ format = <<"c","B","7","Z">>
    /\ pc = "done" /\ result = "ok"
    /\ disk[ArchivePath].kind = "7z"

-----------------------------------------------------------------------------
(* C9 *)

\* C9: for a format that is none of the six names in any letter case,
\* CreateArchive takes the native path and returns what the zip packager
\* returned.
C9_UnknownFormatIsNative ==
    (entry = "CreateArchive" /\ format \notin KnownNames) =>
        /\ NativePath
        /\ pc = "done" => (result = zipRes /\ result \in {"ok", "err"})

\* The format "tar" ending in a zip archive with an entry.
C9_Witness ==
    /\ entry = "CreateArchive" /\ format = <<"t","a","r">>
    /\ pc = "done" /\ result = "ok" /\ Len(entries) >= 1
    /\ disk[ArchivePath].finalized

-----------------------------------------------------------------------------
(* C10 *)

\* C10: CreateArchiveWithProgress takes for its format the path CreateArchive
\* takes: for rar/cbr and 7z/cb7z the external repack with the tool.
C10_ProgressSameStrategy ==
    entry = "CreateArchiveWithProgress" =>
        /\ format \in NativeNames => NativePath
        /\ format \in RarNames => ExternalPath("rar")
        /\ format \in SevenNames => ExternalPath("7z")

-----------------------------------------------------------------------------
(* C11 *)

\* name is rel with its final extension replaced by .webp: rel is a stem
\* followed by a dot and letters without dot or separator, name is the stem
\* followed by .webp.
ExtensionReplaced(rel, name) ==
    \E n \in 0 .. Len(rel) - 1 :
        /\ rel[n + 1] = "."
        /\ \A j \in n + 2 .. Len(rel) : rel[j] \notin {".", "/"}
        /\ name = SubSeq(rel, 1, n) \o <<".","w","e","b","p">>

\* C11: every entry is named by the path of its source file relative to the
\* source directory: that path itself for a file copied verbatim, that path
\* with its final extension replaced by .webp for a transcoded image; nothing
\* but the relative path enters the name.
C11_EntryNames ==
    \A k \in DOMAIN entries :
        LET rel == Rel(SourceDir, tree[entries[k].src].path) IN
        IF entries[k].image
        THEN ExtensionReplaced(rel, entries[k].name)
        ELSE entries[k].name = rel

\* The image a.b.png written as a.b.webp.
C11_Witness ==
    /\ ZipReturned /\ zipRes = "ok"
    /\ \E k \in DOMAIN entries :
           /\ entries[k].image
           /\ tree[entries[k].src].path = InDir(<<"a",".","b",".","p","n","g">>)
           /\ entries[k].name = <<"a",".","b",".","w","e","b","p">>

-----------------------------------------------------------------------------
(* C13 *)

\* Every spelling, in upper and lower case letters, of the four extensions.
ImageSpellings ==
    UNION { CaseVariants(x) : x \in { <<".","j","p","g">>, <<".","j","p","e","g">>,
                                      <<".","p","n","g">>, <<".","g","i","f">> } }

\* The path ends in one of the four extensions, in any letter case.
EndsInImageExtension(path) == \E x \in ImageSpellings : HasSuffix(path, x)

\* C13: a file is treated as an image exactly when its final extension is
\* .jpg, .jpeg, .png or .gif in any letter case, whatever its bytes are: every
\* entry is a transcoded one exactly for such a path, a decoding or encoding
\* failure happens only on such a path and a copying failure only on another.
C13_ImageByExtensionOnly ==
    /\ \A k \in DOMAIN entries :
           entries[k].image <=> EndsInImageExtension(tree[entries[k].src].path)
    /\ failKind \in {"decode", "encode"} => EndsInImageExtension(tree[idx].path)
    /\ failKind = "copy" => ~EndsInImageExtension(tree[idx].path)

\* A text file named a.PnG has been handed to the image decoder.
C13_Witness ==
    /\ ZipReturned
    /\ failKind = "decode"
    /\ tree[idx].path = InDir(<<"a",".","P","n","G">>)
    /\ tree[idx].content = "text"

-----------------------------------------------------------------------------
(* C14 *)

\* The attempts DecodeImage makes on a file the n-th decoder is the first to
\* accept: the first n of JPEG, PNG, GIF, generic, each from position 0.
FirstAttempts(n) ==
    [j \in 1 .. n |->
        [decoder |-> <<"jpeg", "png", "gif", "generic">>[j], at |-> 0]]

\* C14: DecodeImage tries the JPEG, PNG and GIF decoders and then the generic
\* one, in this order, each on the file rewound to its first byte; it returns
\* the image and tag of the first decoder that accepts the file and tries none
\* after it; it fails only when all four have failed, with the error of the
\* generic attempt.
C14_DecodeOrder ==
    \A k \in DOMAIN decodeLog :
        LET content == tree[decodeLog[k].src].content
            res     == decodeLog[k].res
        IN IF content = "jpeg"
           THEN res.ok /\ res.format = "JPEG" /\ res.tried = FirstAttempts(1)
           ELSE IF content = "png"
           THEN res.ok /\ res.format = "PNG" /\ res.tried = FirstAttempts(2)
           ELSE IF content = "gif"
           THEN res.ok /\ res.format = "GIF" /\ res.tried = FirstAttempts(3)
           ELSE IF content = "webp"
           THEN res.ok /\ res.format = "webp" /\ res.tried = FirstAttempts(4)
           ELSE ~res.ok /\ res.tried = FirstAttempts(4) /\ res.err = "generic"

\* A WebP file named a.png has been decoded by the fourth attempt.
C14_Witness ==
    \E k \in DOMAIN decodeLog :
        /\ tree[decodeLog[k].src].content = "webp"
        /\ tree[decodeLog[k].src].path = InDir(<<"a",".","p","n","g">>)
        /\ decodeLog[k].res.ok
        /\ Len(decodeLog[k].res.tried) = 4
        /\ zipRes = "ok"

-----------------------------------------------------------------------------
(* C12 *)

\* C12: the entries of an archive have pairwise different names (the source
\* files of a walk always have pairwise different relative paths).
C12_UniqueNames ==
    \A i, j \in DOMAIN entries :
        i # j => entries[i].name # entries[j].name

-----------------------------------------------------------------------------
(* C15 *)

\* zip.NewWriter was called: os.Create succeeded.
WriterCreated == idx >= 1

\* C15: once the packager has returned after creating the writer, the
\* writer's Close has been executed exactly once, on the success path and on
\* every error path; it is never executed twice, and no entry is written
\* after it.
C15_WriterClosedOnce ==
    /\ []((ZipReturned /\ WriterCreated) => WriterCloses = 1)
    /\ [](WriterCloses <= 1)
    /\ [][WriterCloses >= 1 => entries' = entries]_vars

\* The packager returned an error after a copy failed on the second entry,
\* with the writer closed.
C15_Witness ==
    /\ ZipReturned /\ zipRes = "err"
    /\ failKind = "copy"
    /\ Len(entries) = 2
    /\ WriterCloses = 1

-----------------------------------------------------------------------------
(* C20 *)

\* C20: when the packager returns after creating the output file, with
\* success or with an error, the writer and the file have both been closed,
\* the writer first.
C20_WriterThenFile ==
    (ZipReturned /\ WriterCreated) =>
        /\ Len(closeLog) = 2
        /\ closeLog[1].what = "writer"
        /\ closeLog[2].what = "file"

\* An error return with the footer written to the open file, then the file
\* closed.
C20_Witness ==
    /\ ZipReturned /\ zipRes = "err" /\ WriterCreated
    /\ Len(closeLog) = 2
    /\ closeLog[1] = [what |-> "writer", ok |-> TRUE]
    /\ closeLog[2] = [what |-> "file", ok |-> TRUE]
    /\ disk[target].finalized

-----------------------------------------------------------------------------
(* C16 *)

\* No file operation of the conversion failed: the output file was created,
\* every directory could be read, both closes succeeded.
NoIOFailure ==
    /\ WriterCreated
    /\ failKind # "walk"
    /\ \A j \in DOMAIN closeLog : closeLog[j].ok

\* C16: packaging a source directory without files (empty, or holding empty
\* subdirectories only), no file operation failing, returns success and
\* leaves at the archive path a finalized archive with zero entries.
C16_EmptyDirectory ==
    (/\ pc = "done" /\ strategy = "zip"
     /\ NumFiles(tree) = 0
     /\ NoIOFailure)
    => /\ result = "ok"
       /\ entries = <<>>
       /\ disk[ArchivePath].exists
       /\ disk[ArchivePath].finalized

\* A source directory holding one empty subdirectory has been packaged.
C16_Witness ==
    /\ pc = "done" /\ strategy = "zip"
    /\ Len(tree) = 2 /\ NumFiles(tree) = 0
    /\ NoIOFailure
    /\ result = "ok" /\ entries = <<>> /\ disk[ArchivePath].finalized

-----------------------------------------------------------------------------
(* C18 *)

IsProcessing(ev) == ev.type = "progress" /\ ev.msg = "processing"
IsProgress(ev)   == ev.type = "progress"
IsComplete(en)   == en.complete

\* The "Processing <name>..." messages sent so far, and the entries written
\* in full so far.
ProcessingEvents == SelectSeq(events, IsProcessing)
CompleteEntries  == SelectSeq(entries, IsComplete)

\* C18: in the progress packager every entry written in full, image or not,
\* has its message, sent before the next entry is begun: at any moment there
\* are as many messages as such entries; the k-th message names the k-th file
\* written and carries ProcessedFiles = k; no message carries ProcessedFiles
\* above TotalFiles; on success the last message carries ProcessedFiles =
\* TotalFiles.
C18_ProgressPerEntry ==
    entry = "CreateArchiveWithProgress" =>
        /\ Len(ProcessingEvents) = Len(CompleteEntries)
        /\ \A k \in DOMAIN ProcessingEvents :
               /\ ProcessingEvents[k].processed = k
               /\ ProcessingEvents[k].file =
                      Base(tree[CompleteEntries[k].src].path)
        /\ \A k \in DOMAIN events :
               IsProgress(events[k]) =>
                   events[k].processed <= events[k].total
        /\ result = "ok" =>
               /\ IsProgress(events[Len(events)])
               /\ events[Len(events)].processed = events[Len(events)].total

-----------------------------------------------------------------------------
(* C17 *)

\* C17: the progress packager never crashes, whichever of its callbacks is
\* nil.
C17_NilCallbacksTolerated == result # "panic"

-----------------------------------------------------------------------------
(* C19 *)

\* C19: a caller driving several conversions, the CLI loop or the TUI chain
\* of ProcessDirectoryMsg, has at most one conversion in flight: conversions
\* are called in the order of the items, each item once, and a conversion is
\* called only when every earlier one has returned.
C19_OneConversionAtATime ==
    /\ [](/\ active <= 1
          /\ Len(started) = Len(finished) + active
          /\ \A k \in DOMAIN started : started[k] = k - 1
          /\ \A k \in DOMAIN finished : finished[k].index = k - 1)
    /\ [][Len(started') > Len(started) => active = 0 /\ active' = 1]_vars

\* The TUI has converted two items one after the other, the first with an
\* error, and is complete.
C19_Witness ==
    /\ driver = "tui" /\ state = "StateComplete"
    /\ Len(finished) = 2 /\ active = 0
    /\ ~finished[1].ok /\ finished[2].ok

-----------------------------------------------------------------------------
(* C21 *)

\* C21: on the format screen the cursor is an index of formats, and enter
\* there never indexes formats out of range.
C21_FormatCursorInRange ==
    /\ state = "StateSelectFormat" => (cursor >= 0 /\ cursor < Len(formats))
    /\ quit # "panic"

-----------------------------------------------------------------------------
(* C22 *)

\* Elements of a sequence.
Range(seq) == { seq[i] : i \in DOMAIN seq }

\* C22: in file mode, when processing is complete and every conversion
\* succeeded, the archive of the directory has one entry for each of the
\* selected files.
C22_FileModeArchiveHoldsAll ==
    (/\ state = "StateComplete" /\ operationMode = "ModeFiles"
     /\ Len(finished) = Len(directories)
     /\ \A k \in DOMAIN finished : finished[k].ok)
    => /\ { e.item : e \in { x \in Range(archive) : x.complete } }
              = Range(directories)
       /\ Len(archive) = Len(directories)

-----------------------------------------------------------------------------
(* C23 *)

\* The items whose archive creation has returned without error.
Converted ==
    { ItemAt(directories, finished[k].index) :
        k \in { j \in DOMAIN finished : finished[j].ok } }

\* C23: an original item is removed only after the archive creation for that
\* same item returned without error, so an item whose conversion failed is
\* never removed; with the delete-originals option off nothing is removed.
C23_RemovedOnlyAfterSuccess ==
    /\ removed \subseteq Converted
    /\ ~deleteOriginal => removed = {}

-----------------------------------------------------------------------------
(* C24 *)

\* One step of the chain: a command of the chain runs, or Update handles
\* the message a command of the chain sent.
ChainStep ==
    \/ RunCountDirectories
    \/ UpdateDirectoryCountMsg
    \/ \E prepared \in BOOLEAN : UpdateProcessDirectoryMsg(prepared)
    \/ \E ok, created, header, rmOK \in BOOLEAN :
           UpdateConversionReturn(ok, created, header, rmOK)
    \/ UpdateProcessingCompleteMsg

\* The Bubble Tea runtime runs every command a handler returns and delivers
\* its message to Update; a conversion is a finite walk and returns. The
\* chain has one command or message at a time, so its next step is not
\* postponed forever.
SpecDriveFair == SpecDrive /\ WF_vars(ChainStep)

\* The indices handed to a conversion so far are 0, 1, 2, ... in this order.
ChainInOrder ==
    /\ \A k \in DOMAIN started : started[k] = k - 1
    /\ Len(started) <= Len(directories)

\* The items whose conversion returned no error, in the order of the chain.
CompletedInOrder ==
    LET okOnes == SelectSeq(finished, LAMBDA f : f.ok)
    IN  [k \in DOMAIN okOnes |-> ItemAt(directories, okOnes[k].index)]

NoRepeats(seq) == \A i, j \in DOMAIN seq : seq[i] = seq[j] => i = j

ProcessingOver == state \in {"StateComplete", "StateError"}

\* C24: once the TUI processes n selected items and no quit key is pressed,
\* the chain hands each index 0..n-1 to a conversion once, in increasing
\* order, and the model eventually reaches StateComplete or StateError; in
\* StateComplete every index has been handled and completedDirs holds exactly
\* the items whose conversion returned no error, each at most once.
C24_ChainTerminates ==
    /\ [](driver = "tui" => ChainInOrder)
    /\ [](driver = "tui" /\ state = "StateComplete"
            => /\ Len(finished) = Len(directories)
               /\ completedDirs = CompletedInOrder
               /\ NoRepeats(completedDirs))
    /\ (driver = "tui" /\ state = "StateProcessing")
           ~> (ProcessingOver \/ quit # "no")

C24_Witness ==
    /\ driver = "tui" /\ state = "StateComplete" /\ quit = "no"
    /\ Len(directories) = 2
    /\ completedDirs = <<directories[2]>>
    /\ deleteOriginal /\ removed # {}

-----------------------------------------------------------------------------
(* C25 *)

CountMessages == { msg \in msgs : msg.type = "DirectoryCountMsg" }

\* C25: the TUI is on the format screen or processing only with at least one
\* item selected, and every DirectoryCountMsg, the message that starts
\* processing, has TotalDirs >= 1.
C25_ProcessingNeedsSelection ==
    driver = "tui" =>
        /\ state \in {"StateSelectFormat", "StateProcessing"}
               => selectedItems # {}
        /\ \A msg \in CountMessages :
               msg.TotalDirs >= 1 /\ msg.TotalDirs = Len(msg.Directories)

C25_Witness ==
    /\ driver = "tui" /\ state = "StateProcessing"
    /\ \E msg \in CountMessages : msg.TotalDirs = 1
    /\ Len(availableItems) = 2

-----------------------------------------------------------------------------
(* C26 *)

-----------------------------------------------------------------------------
(* C27 *)

\* C27: on the item screen the cursor row lies inside the displayed page,
\* itemStartIndex <= cursor < itemStartIndex + itemsPerPage, and
\* itemStartIndex does not exceed the number of available items, after any
\* up and down keys and window-size messages.
C27_CursorOnPage ==
    (driver = "tui" /\ state = "StateSelectItems")
    => /\ itemStartIndex <= cursor
       /\ cursor < itemStartIndex + itemsPerPage
       /\ itemStartIndex <= Len(availableItems)

====
